---- MODULE Spec2Model ----
\* Model of BLEServer (src/src/server/ble_server.rs): activation sequence,
\* GAP event router, connection list and Indicate-Wait table.
EXTENDS Integers, Sequences, FiniteSets, TLC

\* ---------------------------------------------------------------- bounds
MaxServices == 2
MaxChrs == 1
MaxConnHandle == 2
MaxLinks == 2
MaxDisconnects == 2
MaxStartCalls == 2
\* number of slots of indicate_wait (a build-time configuration value)
CONFIG_BT_NIMBLE_MAX_CONNECTIONS == 2

\* ------------------------------------------------------------- constants
BLE_HS_CONN_HANDLE_NONE == 65535

ConnHandles == 1..MaxConnHandle
\* u16 values handed to the tracker and carried by events
ConnInputs == ConnHandles \cup {BLE_HS_CONN_HANDLE_NONE}
\* return codes of the underlying stack: 0 is success
RcValues == {0, 6}
\* status field of connect / notify_tx events: 0 is success
StatusValues == {0, 7}
Uuids == {1}
PropertyChoices == {{"READ"}, {"READ", "NOTIFY"}, {"INDICATE"}}
Callers == {1, 2}
\* application threads that call the setup API
Threads == {1, 2}

VARIABLES
  started,                 \* BLEServer.started
  advertise_on_disconnect, \* BLEServer.advertise_on_disconnect
  services,                \* BLEServer.services (with each service's characteristics)
  notify_characteristic,   \* BLEServer.notify_characteristic: references <<service, characteristic>>
  connections,             \* BLEServer.connections
  indicate_wait,           \* BLEServer.indicate_wait
  on_connect,              \* BLEServer.on_connect is Some
  on_disconnect,           \* BLEServer.on_disconnect is Some
  caller_pc,               \* position of each indicate-send caller
  caller_conn,             \* connection handle each caller is reserving
  calls,                   \* stack calls and user callbacks made by the last operation
  last,                    \* the last operation, its inputs and its return value
  start_calls,             \* number of start() calls that went past the started check
  start_pc,                \* position of each thread inside start(): idle when not in it
  start_i,                 \* per thread: position of the running loop over the services
  start_j,                 \* per thread: position of the loop over the characteristics
  start_n,                 \* per thread: number of services the running loop iterates over
  start_log,               \* per thread: stack calls made so far by its start() call
  connected_ever,          \* handles that had a successful connect event
  disconnects_after,       \* disconnect events referencing a handle of connected_ever
  net_connects             \* successful connects minus disconnects that found their handle

vars == <<started, advertise_on_disconnect, services, notify_characteristic,
          connections, indicate_wait, on_connect, on_disconnect,
          caller_pc, caller_conn, calls, last, start_calls,
          start_pc, start_i, start_j, start_n, start_log,
          connected_ever, disconnects_after, net_connects>>

\* the fields of BLEServer
server == <<started, advertise_on_disconnect, services, notify_characteristic,
            connections, indicate_wait, on_connect, on_disconnect>>

\* the local state of the threads inside start()
thread_vars == <<start_pc, start_i, start_j, start_n, start_log>>
lifecycle_vars == <<started, services, notify_characteristic, start_calls, thread_vars>>
conn_vars == <<connections, connected_ever, disconnects_after, net_connects>>
caller_vars == <<caller_pc, caller_conn>>
callback_vars == <<on_connect, on_disconnect, advertise_on_disconnect>>

\* found: whether the operation's lookup (list position, slot, characteristic)
\* found its target; ret: the value the operation returns; for a subscribe
\* event status and ind carry its cur_notify and cur_indicate
Op(op, conn, attr, status, ind, found, ret) ==
  [op |-> op, conn |-> conn, attr |-> attr, status |-> status, ind |-> ind,
   found |-> found, ret |-> ret]

\* ------------------------------------------------------------ BLEServer::new
Init ==
  /\ started = FALSE
  /\ advertise_on_disconnect = TRUE
  /\ services = <<>>
  /\ notify_characteristic = <<>>
  /\ connections = <<>>
  /\ indicate_wait = [i \in 1..CONFIG_BT_NIMBLE_MAX_CONNECTIONS |-> BLE_HS_CONN_HANDLE_NONE]
  /\ on_connect = FALSE
  /\ on_disconnect = FALSE
  /\ caller_pc = [c \in Callers |-> "idle"]
  /\ caller_conn = [c \in Callers |-> BLE_HS_CONN_HANDLE_NONE]
  /\ calls = <<>>
  /\ last = Op("new", 0, 0, 0, 0, FALSE, 0)
  /\ start_calls = 0
  /\ start_pc = [t \in Threads |-> "idle"]
  /\ start_i = [t \in Threads |-> 0]
  /\ start_j = [t \in Threads |-> 0]
  /\ start_n = [t \in Threads |-> 0]
  /\ start_log = [t \in Threads |-> <<>>]
  /\ connected_ever = {}
  /\ disconnects_after = 0
  /\ net_connects = 0

\* ----------------------------------------------------- registry (setup API)
NewService(uuid) ==
  [uuid |-> uuid, handle |-> 0, committed |-> FALSE, characteristics |-> <<>>]

NewCharacteristic(props) ==
  [properties |-> props, handle |-> 0, subscribed |-> {}]

\* called by a thread that is not inside start()
create_service(uuid) ==
  /\ \E t \in Threads : start_pc[t] = "idle"
  /\ Len(services) < MaxServices
  /\ services' = Append(services, NewService(uuid))
  /\ calls' = <<>>
  /\ last' = Op("create_service", 0, 0, 0, 0, FALSE, 0)
  /\ UNCHANGED <<started, notify_characteristic, start_calls, thread_vars, indicate_wait>>
  /\ UNCHANGED <<conn_vars, caller_vars, callback_vars>>

RECURSIVE TotalChrs(_)
\* number of characteristics of all the services of svcs
TotalChrs(svcs) ==
  IF svcs = <<>> THEN 0 ELSE Len(Head(svcs).characteristics) + TotalChrs(Tail(svcs))

create_characteristic(s, props) ==
  /\ ~started
  /\ \E t \in Threads : start_pc[t] = "idle"
  /\ s \in 1..Len(services)
  /\ \A t \in Threads : start_pc[t] = "push" => start_i[t] # s
  /\ services' = [services EXCEPT ![s].characteristics =
                    Append(@, NewCharacteristic(props))]
  /\ calls' = <<>>
  /\ last' = Op("create_characteristic", 0, 0, 0, 0, FALSE, 0)
  /\ UNCHANGED <<started, notify_characteristic, start_calls, thread_vars, indicate_wait>>
  /\ UNCHANGED <<conn_vars, caller_vars, callback_vars>>

\* ------------------------------------------------------------------- start
\* attribute handle the stack assigns to characteristic c of service s
AttrHandle(s, c) == s * 16 + c
\* handle the stack reports for service s: that of the first service with its uuid
SvcHandle(svcs, s) ==
  16 * (CHOOSE i \in 1..Len(svcs) :
          /\ svcs[i].uuid = svcs[s].uuid
          /\ \A j \in 1..(i - 1) : svcs[j].uuid # svcs[s].uuid)

Intersects(props, flags) == props \cap flags # {}

\* a loop visiting the services from the last registered to the first
LoopService_Reversed(i, n) == n + 1 - i

\* the service a loop over the services visits at its i-th iteration, out of n
LoopService(i, n) == i

\* the service whose lock thread t holds: the one whose characteristics it is
\* pushing to the index (0: none)
LockedBy(t) ==
  IF start_pc[t] = "push" THEN LoopService(start_i[t], start_n[t]) ELSE 0

\* no thread holds the lock of service s
Unlocked(s) == \A t \in Threads : LockedBy(t) # s

\* thread t leaves start() with return value ret after the stack calls of log
Returned(t, log, ret) ==
  /\ start_pc' = [start_pc EXCEPT ![t] = "idle"]
  /\ start_i' = [start_i EXCEPT ![t] = 0]
  /\ start_j' = [start_j EXCEPT ![t] = 0]
  /\ start_n' = [start_n EXCEPT ![t] = 0]
  /\ start_log' = [start_log EXCEPT ![t] = <<>>]
  /\ calls' = log
  /\ last' = Op("start", 0, 0, 0, 0, FALSE, ret)

\* a step of a start() call that has not returned yet
Running ==
  /\ calls' = <<>>
  /\ last' = Op("start_step", 0, 0, 0, 0, FALSE, 0)

\* thread t moves on after iteration start_i[t] of a loop over the services:
\* to the next iteration at position again, or past the loop to position after
Advance(t, again, after) ==
  IF start_i[t] < start_n[t]
  THEN /\ start_pc' = [start_pc EXCEPT ![t] = again]
       /\ start_i' = [start_i EXCEPT ![t] = @ + 1]
       /\ UNCHANGED start_n
  ELSE /\ start_pc' = [start_pc EXCEPT ![t] = after]
       /\ start_i' = [start_i EXCEPT ![t] = 0]
       /\ UNCHANGED start_n

\* thread t enters a loop over the first n services, or goes to position
\* after when n is 0
EnterLoop(t, n, loop, after) ==
  IF n = 0
  THEN /\ start_pc' = [start_pc EXCEPT ![t] = after]
       /\ start_i' = [start_i EXCEPT ![t] = 0]
       /\ start_n' = [start_n EXCEPT ![t] = 0]
  ELSE /\ start_pc' = [start_pc EXCEPT ![t] = loop]
       /\ start_i' = [start_i EXCEPT ![t] = 1]
       /\ start_n' = [start_n EXCEPT ![t] = n]

\* the ranges the loop of line 51 can run over: self.services is written by
\* other threads without synchronisation, so the build either reads its
\* length again after ble_gatts_start or reuses the one read for the loop of
\* line 44, which start_n[t] still holds
LookupRanges(t) == {start_n[t], Len(services)}

\* start() entered without the check of started
start_enter_NoStartedCheck(t) ==
  /\ start_pc[t] = "idle"
  /\ start_calls < MaxStartCalls
  /\ start_calls' = start_calls + 1
  /\ EnterLoop(t, Len(services), "commit", "begin")
  /\ Running
  /\ UNCHANGED <<start_j, start_log>>
  /\ UNCHANGED <<started, services, notify_characteristic>>

\* start(), lines 39-44: the check of started and the entry of the commit loop
start_enter(t) ==
  /\ start_pc[t] = "idle"
  /\ IF started
     THEN /\ Returned(t, <<>>, 0)
          /\ UNCHANGED start_calls
     ELSE /\ start_calls < MaxStartCalls
          /\ start_calls' = start_calls + 1
          /\ EnterLoop(t, Len(services), "commit", "begin")
          /\ Running
          /\ UNCHANGED <<start_j, start_log>>
  /\ UNCHANGED <<started, services, notify_characteristic>>

\* start(), line 45: one service locked and its attribute table committed
start_commit(t, rc) ==
  LET i == LoopService(start_i[t], start_n[t])
      log == Append(start_log[t], <<"svc_start", i, rc>>)
  IN
  /\ start_pc[t] = "commit"
  /\ Unlocked(i)
  /\ IF rc # 0
     THEN /\ Returned(t, log, rc)
          /\ UNCHANGED services
     ELSE /\ services' = [services EXCEPT ![i].committed = TRUE]
          /\ start_log' = [start_log EXCEPT ![t] = log]
          /\ Advance(t, "commit", "begin")
          /\ Running
          /\ UNCHANGED start_j
  /\ UNCHANGED <<started, notify_characteristic, start_calls>>

\* start() setting started as soon as the stack serves requests
start_begin_SetsStarted(t, rc) ==
  LET log == Append(start_log[t], <<"ble_gatts_start", 0, rc>>)
  IN
  /\ start_pc[t] = "begin"
  /\ started' = (started \/ rc = 0)
  /\ IF rc # 0
     THEN /\ Returned(t, log, rc)
          /\ UNCHANGED services
     ELSE /\ services' = [s \in 1..Len(services) |->
                            [services[s] EXCEPT !.characteristics =
                               [c \in 1..Len(services[s].characteristics) |->
                                  [services[s].characteristics[c] EXCEPT
                                     !.handle = AttrHandle(s, c)]]]]
          /\ start_log' = [start_log EXCEPT ![t] = log]
          /\ \E n \in LookupRanges(t) : EnterLoop(t, n, "lookup", "finish")
          /\ Running
          /\ UNCHANGED start_j
  /\ UNCHANGED <<notify_characteristic, start_calls>>

\* start(), lines 49-51: ble_gatts_start, after which the stack has assigned
\* the attribute handles, and the entry of the lookup loop
start_begin(t, rc) ==
  LET log == Append(start_log[t], <<"ble_gatts_start", 0, rc>>)
  IN
  /\ start_pc[t] = "begin"
  /\ IF rc # 0
     THEN /\ Returned(t, log, rc)
          /\ UNCHANGED services
     ELSE /\ services' = [s \in 1..Len(services) |->
                            [services[s] EXCEPT !.characteristics =
                               [c \in 1..Len(services[s].characteristics) |->
                                  [services[s].characteristics[c] EXCEPT
                                     !.handle = AttrHandle(s, c)]]]]
          /\ start_log' = [start_log EXCEPT ![t] = log]
          /\ \E n \in LookupRanges(t) : EnterLoop(t, n, "lookup", "finish")
          /\ Running
          /\ UNCHANGED start_j
  /\ UNCHANGED <<started, notify_characteristic, start_calls>>

\* start(), lines 52-58: one service locked and its handle looked up; the
\* lock is kept while its characteristics are visited
start_lookup(t, rc) ==
  LET i == LoopService(start_i[t], start_n[t])
      log == Append(start_log[t], <<"ble_gatts_find_svc", i, rc>>)
  IN
  /\ start_pc[t] = "lookup"
  /\ Unlocked(i)
  /\ IF rc # 0
     THEN /\ Returned(t, log, rc)
          /\ UNCHANGED services
     ELSE /\ services' = [services EXCEPT ![i].handle = SvcHandle(services, i)]
          /\ start_log' = [start_log EXCEPT ![t] = log]
          /\ IF Len(services[i].characteristics) = 0
             THEN /\ Advance(t, "lookup", "finish")
                  /\ UNCHANGED start_j
             ELSE /\ start_pc' = [start_pc EXCEPT ![t] = "push"]
                  /\ start_j' = [start_j EXCEPT ![t] = 1]
                  /\ UNCHANGED <<start_i, start_n>>
          /\ Running
  /\ UNCHANGED <<started, notify_characteristic, start_calls>>

\* start(), lines 58-69: one characteristic locked and, when it has Notify or
\* Indicate, pushed to notify_characteristic
start_push(t) ==
  LET i == LoopService(start_i[t], start_n[t])
      j == start_j[t]
  IN
  /\ start_pc[t] = "push"
  /\ notify_characteristic' =
       IF Intersects(services[i].characteristics[j].properties, {"NOTIFY", "INDICATE"})
       THEN Append(notify_characteristic, <<i, j>>)
       ELSE notify_characteristic
  /\ IF j < Len(services[i].characteristics)
     THEN /\ start_j' = [start_j EXCEPT ![t] = j + 1]
          /\ UNCHANGED <<start_pc, start_i, start_n>>
     ELSE /\ start_j' = [start_j EXCEPT ![t] = 0]
          /\ Advance(t, "lookup", "finish")
  /\ Running
  /\ UNCHANGED <<started, services, start_calls, start_log>>

\* start(), lines 73-75: started set and Ok returned
start_finish(t) ==
  /\ start_pc[t] = "finish"
  /\ started' = TRUE
  /\ Returned(t, start_log[t], 0)
  /\ UNCHANGED <<services, notify_characteristic, start_calls>>

\* one step of thread t inside start()
start(t) ==
  \/ start_enter(t)
  \/ \E rc \in RcValues : start_commit(t, rc)
  \/ \E rc \in RcValues : start_begin(t, rc)
  \/ \E rc \in RcValues : start_lookup(t, rc)
  \/ start_push(t)
  \/ start_finish(t)

\* ------------------------------------------------- user callback registration
set_on_connect ==
  /\ ~on_connect
  /\ on_connect' = TRUE
  /\ calls' = <<>>
  /\ last' = Op("on_connect", 0, 0, 0, 0, FALSE, 0)
  /\ UNCHANGED <<on_disconnect, advertise_on_disconnect, indicate_wait>>
  /\ UNCHANGED <<lifecycle_vars, conn_vars, caller_vars>>

set_on_disconnect ==
  /\ ~on_disconnect
  /\ on_disconnect' = TRUE
  /\ calls' = <<>>
  /\ last' = Op("on_disconnect", 0, 0, 0, 0, FALSE, 0)
  /\ UNCHANGED <<on_connect, advertise_on_disconnect, indicate_wait>>
  /\ UNCHANGED <<lifecycle_vars, conn_vars, caller_vars>>

set_advertise_on_disconnect(value) ==
  /\ advertise_on_disconnect # value
  /\ advertise_on_disconnect' = value
  /\ calls' = <<>>
  /\ last' = Op("advertise_on_disconnect", 0, 0, 0, 0, FALSE, 0)
  /\ UNCHANGED <<on_connect, on_disconnect, indicate_wait>>
  /\ UNCHANGED <<lifecycle_vars, conn_vars, caller_vars>>

\* ------------------------------------------------------ Indicate-Wait table
Contains(table, conn_handle) == \E i \in DOMAIN table : table[i] = conn_handle

\* set_indicate_wait looking at the first slot only
set_indicate_wait_FirstSlot(table, conn_handle) == table[1] # conn_handle

\* BLEServer::set_indicate_wait: the value it returns (it writes nothing)
set_indicate_wait(table, conn_handle) == ~Contains(table, conn_handle)

\* clear_indicate_wait looking at the first slot only
clear_indicate_wait_FirstSlot(table, conn_handle) ==
  IF table[1] = conn_handle
  THEN [table EXCEPT ![1] = BLE_HS_CONN_HANDLE_NONE]
  ELSE table

\* BLEServer::clear_indicate_wait: the table it leaves
clear_indicate_wait(table, conn_handle) ==
  IF Contains(table, conn_handle)
  THEN LET it == CHOOSE i \in DOMAIN table :
                   /\ table[i] = conn_handle
                   /\ \A j \in 1..(i - 1) : table[j] # conn_handle
       IN [table EXCEPT ![it] = BLE_HS_CONN_HANDLE_NONE]
  ELSE table

\* ---------------------------------------------------------- connection list
\* Iterator::position: first index holding x, 0 for None
Position(list, x) ==
  IF \E i \in 1..Len(list) : list[i] = x
  THEN CHOOSE i \in 1..Len(list) : list[i] = x /\ \A j \in 1..(i - 1) : list[j] # x
  ELSE 0

\* removal of every element equal to element idx
SwapRemove_All(list, idx) == SelectSeq(list, LAMBDA x : x # list[idx])

\* Vec::swap_remove: the last element takes the place of element idx
SwapRemove(list, idx) ==
  LET n == Len(list)
  IN [i \in 1..(n - 1) |-> IF i = idx THEN list[n] ELSE list[i]]

\* ------------------------------------------------- Subscribable index lookup
ChrOf(svcs, ref) == svcs[ref[1]].characteristics[ref[2]]

\* a lookup that returns the first indexed characteristic whatever the handle
FindChr_IgnoreHandle(index, svcs, attr_handle) == IF Len(index) > 0 THEN 1 ELSE 0

\* a lookup that returns the last indexed characteristic with the handle
FindChr_Last(index, svcs, attr_handle) ==
  IF \E i \in 1..Len(index) : ChrOf(svcs, index[i]).handle = attr_handle
  THEN CHOOSE i \in 1..Len(index) :
         /\ ChrOf(svcs, index[i]).handle = attr_handle
         /\ \A j \in (i + 1)..Len(index) : ChrOf(svcs, index[j]).handle # attr_handle
  ELSE 0

\* Iterator::find over notify_characteristic: position of the first reference
\* whose characteristic has this attribute handle, 0 for None
FindChr(index, svcs, attr_handle) ==
  IF \E i \in 1..Len(index) : ChrOf(svcs, index[i]).handle = attr_handle
  THEN CHOOSE i \in 1..Len(index) :
         /\ ChrOf(svcs, index[i]).handle = attr_handle
         /\ \A j \in 1..(i - 1) : ChrOf(svcs, index[j]).handle # attr_handle
  ELSE 0

\* BLECharacteristic::subscribe: the subscription state it leaves
subscribe(chr, conn_handle, mode) ==
  LET others == {e \in chr.subscribed : e[1] # conn_handle}
  IN [chr EXCEPT !.subscribed =
        IF mode = <<0, 0>> THEN others ELSE others \cup {<<conn_handle, mode>>}]

\* ------------------------------------------------ BLEServer::handle_gap_event
\* the connect branch without the test of connect.status
GapConnect_IgnoreStatus(conn_handle, status, find_rc) ==
  /\ conn_handle \in ConnHandles /\ Len(connections) < MaxLinks
  /\ connections' = Append(connections, conn_handle)
  /\ calls' = <<<<"ble_gap_conn_find", conn_handle, find_rc>>>> \o
              (IF find_rc = 0 /\ on_connect
               THEN <<<<"on_connect", conn_handle, 0>>>> ELSE <<>>)
  /\ connected_ever' = connected_ever \cup {conn_handle}
  /\ net_connects' = net_connects + 1
  /\ last' = Op("connect", conn_handle, 0, status, 0, FALSE, 0)
  /\ UNCHANGED <<disconnects_after, indicate_wait>>
  /\ UNCHANGED <<lifecycle_vars, caller_vars, callback_vars>>

GapConnect(conn_handle, status, find_rc) ==
  /\ status = 0 => conn_handle \in ConnHandles /\ Len(connections) < MaxLinks
  /\ IF status = 0
     THEN /\ connections' = Append(connections, conn_handle)
          /\ calls' = <<<<"ble_gap_conn_find", conn_handle, find_rc>>>> \o
                      (IF find_rc = 0 /\ on_connect
                       THEN <<<<"on_connect", conn_handle, 0>>>> ELSE <<>>)
          /\ connected_ever' = connected_ever \cup {conn_handle}
          /\ net_connects' = net_connects + 1
     ELSE /\ calls' = <<>>
          /\ UNCHANGED <<connections, connected_ever, net_connects>>
  /\ last' = Op("connect", conn_handle, 0, status, 0, FALSE, 0)
  /\ UNCHANGED <<disconnects_after, indicate_wait>>
  /\ UNCHANGED <<lifecycle_vars, caller_vars, callback_vars>>

\* the callback invoked only for a handle found in the list
DisconnectCallback_IfFound(idx, conn_handle) ==
  IF on_disconnect /\ idx # 0 THEN <<<<"on_disconnect", conn_handle, 0>>>> ELSE <<>>

\* the user disconnect callback, invoked when one is registered
DisconnectCallback(idx, conn_handle) ==
  IF on_disconnect THEN <<<<"on_disconnect", conn_handle, 0>>>> ELSE <<>>

\* the disconnect branch restarting advertising whatever the policy flag says
GapDisconnect_AlwaysAdvertise(conn_handle, adv_rc) ==
  LET idx == Position(connections, conn_handle)
  IN
  /\ conn_handle \in connected_ever => disconnects_after < MaxDisconnects
  /\ connections' = IF idx # 0 THEN SwapRemove(connections, idx) ELSE connections
  /\ calls' = DisconnectCallback(idx, conn_handle) \o
              <<<<"advertising_start", 0, adv_rc>>>>
  /\ disconnects_after' = IF conn_handle \in connected_ever
                          THEN disconnects_after + 1 ELSE disconnects_after
  /\ net_connects' = IF idx # 0 THEN net_connects - 1 ELSE net_connects
  /\ last' = Op("disconnect", conn_handle, 0, 0, 0, idx # 0, 0)
  /\ UNCHANGED <<connected_ever, indicate_wait>>
  /\ UNCHANGED <<lifecycle_vars, caller_vars, callback_vars>>

GapDisconnect(conn_handle, adv_rc) ==
  LET idx == Position(connections, conn_handle)
  IN
  /\ conn_handle \in connected_ever => disconnects_after < MaxDisconnects
  /\ connections' = IF idx # 0 THEN SwapRemove(connections, idx) ELSE connections
  /\ calls' = DisconnectCallback(idx, conn_handle) \o
              (IF advertise_on_disconnect
               THEN <<<<"advertising_start", 0, adv_rc>>>> ELSE <<>>)
  /\ disconnects_after' = IF conn_handle \in connected_ever
                          THEN disconnects_after + 1 ELSE disconnects_after
  /\ net_connects' = IF idx # 0 THEN net_connects - 1 ELSE net_connects
  /\ last' = Op("disconnect", conn_handle, 0, 0, 0, idx # 0, 0)
  /\ UNCHANGED <<connected_ever, indicate_wait>>
  /\ UNCHANGED <<lifecycle_vars, caller_vars, callback_vars>>

\* the subscribe branch dropping the event after the lookup
GapSubscribe_Dropped(conn_handle, attr_handle, mode) ==
  LET pos == FindChr(notify_characteristic, services, attr_handle)
  IN
  /\ calls' = <<>>
  /\ last' = Op("subscribe", conn_handle, attr_handle, mode[1], mode[2], pos # 0, 0)
  /\ UNCHANGED <<services, started, notify_characteristic, start_calls, thread_vars,
                  indicate_wait>>
  /\ UNCHANGED <<conn_vars, caller_vars, callback_vars>>

GapSubscribe(conn_handle, attr_handle, mode) ==
  LET pos == FindChr(notify_characteristic, services, attr_handle)
      ref == notify_characteristic[pos]
  IN
  /\ IF pos # 0
     THEN /\ services' = [services EXCEPT ![ref[1]].characteristics[ref[2]] =
                            subscribe(@, conn_handle, mode)]
          /\ calls' = <<<<"subscribe", pos, 0>>>>
     ELSE /\ calls' = <<>>
          /\ UNCHANGED services
  /\ last' = Op("subscribe", conn_handle, attr_handle, mode[1], mode[2], pos # 0, 0)
  /\ UNCHANGED <<started, notify_characteristic, start_calls, thread_vars, indicate_wait>>
  /\ UNCHANGED <<conn_vars, caller_vars, callback_vars>>

\* the notify-result branch without the test of the indication kind
GapNotifyTx_AnyKind(conn_handle, attr_handle, indication, status) ==
  LET pos == FindChr(notify_characteristic, services, attr_handle)
  IN
  /\ indicate_wait' = IF pos # 0 /\ status # 0
                      THEN clear_indicate_wait(indicate_wait, conn_handle)
                      ELSE indicate_wait
  /\ calls' = <<>>
  /\ last' = Op("notify_tx", conn_handle, attr_handle, status, indication, pos # 0, 0)
  /\ UNCHANGED <<lifecycle_vars, conn_vars, caller_vars, callback_vars>>

GapNotifyTx(conn_handle, attr_handle, indication, status) ==
  LET pos == FindChr(notify_characteristic, services, attr_handle)
  IN
  /\ indicate_wait' = IF pos # 0 /\ indication > 0 /\ status # 0
                      THEN clear_indicate_wait(indicate_wait, conn_handle)
                      ELSE indicate_wait
  /\ calls' = <<>>
  /\ last' = Op("notify_tx", conn_handle, attr_handle, status, indication, pos # 0, 0)
  /\ UNCHANGED <<lifecycle_vars, conn_vars, caller_vars, callback_vars>>

GapOther ==
  /\ calls' = <<>>
  /\ last' = Op("other", 0, 0, 0, 0, FALSE, 0)
  /\ UNCHANGED <<indicate_wait, lifecycle_vars, conn_vars, caller_vars, callback_vars>>

\* ----------------------------------------------- indicate-send path (caller)
\* Caller c is the indicate-send path of one characteristic, run under that
\* characteristic's lock: one path makes one reservation at a time, the paths
\* of different characteristics share no lock, and set_indicate_wait itself
\* takes none.
\* the caller asks the tracker for permission
BeginIndicate(c, conn_handle) ==
  /\ caller_pc[c] = "idle"
  /\ IF set_indicate_wait(indicate_wait, conn_handle)
     THEN /\ caller_pc' = [caller_pc EXCEPT ![c] = "record"]
          /\ caller_conn' = [caller_conn EXCEPT ![c] = conn_handle]
          /\ last' = Op("set_indicate_wait", conn_handle, 0, 0, 0, FALSE, 1)
     ELSE /\ last' = Op("set_indicate_wait", conn_handle, 0, 0, 0, TRUE, 0)
          /\ UNCHANGED <<caller_pc, caller_conn>>
  /\ calls' = <<>>
  /\ UNCHANGED <<indicate_wait, lifecycle_vars, conn_vars, callback_vars>>

\* the caller records the handle in a free slot, if there is one
RecordIndicate(c) ==
  /\ caller_pc[c] = "record"
  /\ IF Contains(indicate_wait, BLE_HS_CONN_HANDLE_NONE)
     THEN \E i \in DOMAIN indicate_wait :
            /\ indicate_wait[i] = BLE_HS_CONN_HANDLE_NONE
            /\ indicate_wait' = [indicate_wait EXCEPT ![i] = caller_conn[c]]
     ELSE UNCHANGED indicate_wait
  /\ last' = Op("record", caller_conn[c], 0, 0, 0,
                Contains(indicate_wait, BLE_HS_CONN_HANDLE_NONE), 0)
  /\ caller_pc' = [caller_pc EXCEPT ![c] = "idle"]
  /\ caller_conn' = [caller_conn EXCEPT ![c] = BLE_HS_CONN_HANDLE_NONE]
  /\ calls' = <<>>
  /\ UNCHANGED <<lifecycle_vars, conn_vars, callback_vars>>

\* the caller gives a reservation back (the send failed)
ClearIndicate(conn_handle) ==
  /\ indicate_wait' = clear_indicate_wait(indicate_wait, conn_handle)
  /\ calls' = <<>>
  /\ last' = Op("clear_indicate_wait", conn_handle, 0, 0, 0,
                Contains(indicate_wait, conn_handle), 0)
  /\ UNCHANGED <<lifecycle_vars, conn_vars, caller_vars, callback_vars>>

\* ---------------------------------------------------------------- inputs
\* attribute handles carried by events: those the stack assigns to the
\* registered characteristics, and 0 for a handle the server does not know
AttrInputs ==
  {0} \cup UNION {{AttrHandle(s, c) : c \in 1..Len(services[s].characteristics)} :
                  s \in 1..Len(services)}
\* <<cur_notify, cur_indicate>> of a subscribe event
SubModes == {<<0, 0>>, <<1, 0>>, <<0, 1>>}

CreateService == \E uuid \in Uuids : create_service(uuid)
CreateCharacteristic ==
  /\ TotalChrs(services) < MaxChrs
  /\ \E s \in 1..MaxServices, props \in PropertyChoices : create_characteristic(s, props)
\* a step of start() on any thread; the threads are interchangeable, so a new
\* call is made by the idle thread with the lowest number
Start ==
  \E t \in Threads :
    /\ start_pc[t] = "idle" => \A u \in Threads : start_pc[u] = "idle" => t <= u
    /\ start(t)
    /\ UNCHANGED <<indicate_wait, conn_vars, caller_vars, callback_vars>>
\* a step of the first start() call of the server, made by one thread
StartAlone ==
  /\ start_calls = 0 \/ start_pc[1] # "idle"
  /\ start(1)
  /\ UNCHANGED <<indicate_wait, conn_vars, caller_vars, callback_vars>>
SetOnConnect == set_on_connect
SetOnDisconnect == set_on_disconnect
SetAdvertiseOnDisconnect == \E value \in BOOLEAN : set_advertise_on_disconnect(value)
Connect ==
  \E conn_handle \in ConnInputs, status \in StatusValues, find_rc \in RcValues :
    GapConnect(conn_handle, status, find_rc)
Disconnect ==
  \E conn_handle \in ConnInputs, adv_rc \in RcValues : GapDisconnect(conn_handle, adv_rc)
Subscribe ==
  \E conn_handle \in ConnHandles, attr_handle \in AttrInputs, mode \in SubModes :
    GapSubscribe(conn_handle, attr_handle, mode)
NotifyTx ==
  \E conn_handle \in ConnInputs, attr_handle \in AttrInputs,
     indication \in {0, 1}, status \in StatusValues :
    GapNotifyTx(conn_handle, attr_handle, indication, status)
TryBeginIndicate == \E c \in Callers, conn_handle \in ConnInputs : BeginIndicate(c, conn_handle)
\* a reservation that begins while no other one is between its check and its
\* record: the reservations follow one another
TryBeginIndicateInTurn ==
  /\ \A d \in Callers : caller_pc[d] = "idle"
  /\ TryBeginIndicate
\* a reservation by the send path of Indicate characteristic c of the first
\* service of the started server
IndicateFrom ==
  /\ started
  /\ Len(services) > 0
  /\ \E c \in Callers, conn_handle \in ConnHandles :
       /\ c <= Len(services[1].characteristics)
       /\ "INDICATE" \in services[1].characteristics[c].properties
       /\ BeginIndicate(c, conn_handle)
Record == \E c \in Callers : RecordIndicate(c)
Clear == \E conn_handle \in ConnInputs : ClearIndicate(conn_handle)

\* the subscribe events of one peer, the link with the highest handle
SubscribeOnePeer ==
  \E attr_handle \in AttrInputs, mode \in SubModes :
    GapSubscribe(MaxConnHandle, attr_handle, mode)

\* the events of the started server with one link at a time: a connect event
\* arrives when no link is up, the stack calls of the handlers succeed
LinkUp ==
  /\ started
  /\ connections = <<>>
  /\ \E conn_handle \in ConnHandles, status \in StatusValues :
       GapConnect(conn_handle, status, 0)
LinkDown ==
  /\ started
  /\ \E conn_handle \in ConnHandles : GapDisconnect(conn_handle, 0)
\* the subscribe events of the link that is up
SubscribeLinked ==
  /\ started
  /\ \E i \in 1..Len(connections), attr_handle \in AttrInputs, mode \in SubModes :
       GapSubscribe(connections[i], attr_handle, mode)

\* a registry of one service with one characteristic
CreateOneService == Len(services) = 0 /\ CreateService
CreateOneCharacteristic ==
  /\ Len(services) = 1
  /\ Len(services[1].characteristics) = 0
  /\ CreateCharacteristic
\* a registry of one service with two characteristics
CreateTwoCharacteristics ==
  /\ Len(services) = 1
  /\ Len(services[1].characteristics) < 2
  /\ \E props \in PropertyChoices : create_characteristic(1, props)

\* ------------------------------------------------------------ specifications
\* the whole server
Next ==
  \/ CreateService
  \/ CreateCharacteristic
  \/ Start
  \/ SetOnConnect
  \/ SetOnDisconnect
  \/ SetAdvertiseOnDisconnect
  \/ Connect
  \/ Disconnect
  \/ Subscribe
  \/ NotifyTx
  \/ GapOther
  \/ TryBeginIndicate
  \/ Record
  \/ Clear

Spec == Init /\ [][Next]_vars

\* the setup API: registry construction and activation
NextLifecycle ==
  \/ CreateService
  \/ CreateCharacteristic
  \/ Start

SpecLifecycle == Init /\ [][NextLifecycle]_vars

\* connection events and the callback surface
NextConn ==
  \/ SetOnConnect
  \/ SetOnDisconnect
  \/ SetAdvertiseOnDisconnect
  \/ Connect
  \/ Disconnect

SpecConn == Init /\ [][NextConn]_vars

\* the Indicate-Wait tracker, its callers and the events that reach it, on a
\* registry of one service with one characteristic
NextIndicate ==
  \/ CreateOneService
  \/ CreateOneCharacteristic
  \/ StartAlone
  \/ NotifyTx
  \/ Disconnect
  \/ TryBeginIndicateInTurn
  \/ Record
  \/ Clear

SpecIndicate == Init /\ [][NextIndicate]_vars

\* connection teardown against pending indications
NextTeardown ==
  \/ Connect
  \/ Disconnect
  \/ TryBeginIndicateInTurn
  \/ Record
  \/ Clear

SpecTeardown == Init /\ [][NextTeardown]_vars

\* the event router on a registry of one service with one characteristic,
\* with indications pending
NextRouter ==
  \/ CreateOneService
  \/ CreateOneCharacteristic
  \/ StartAlone
  \/ SubscribeOnePeer
  \/ NotifyTx
  \/ GapOther
  \/ TryBeginIndicateInTurn
  \/ Record

SpecRouter == Init /\ [][NextRouter]_vars

\* links that come up one after the other and subscribe to the
\* characteristics of a started two-characteristic registry
NextSubscribe ==
  \/ CreateOneService
  \/ CreateTwoCharacteristics
  \/ StartAlone
  \/ LinkUp
  \/ SubscribeLinked
  \/ LinkDown

SpecSubscribe == Init /\ [][NextSubscribe]_vars

\* the send paths of two characteristics reserving in the Indicate-Wait table
\* of the started server, with the clear calls and the notify-result events
NextReserve ==
  \/ CreateOneService
  \/ CreateTwoCharacteristics
  \/ StartAlone
  \/ IndicateFrom
  \/ Record
  \/ Clear
  \/ NotifyTx

SpecReserve == Init /\ [][NextReserve]_vars

\* ------------------------------------------------------------------ claims
\* the slots of the Indicate-Wait table that hold conn_handle
SlotsOf(conn_handle) == {i \in DOMAIN indicate_wait : indicate_wait[i] = conn_handle}
\* the calls of the last operation with this name
CallsNamed(name) == {i \in 1..Len(calls) : calls[i][1] = name}

\* C1 (as stated): the length of the active-connection list equals the number
\* of distinct handles that had a successful connect minus the number of
\* later disconnect events referencing those handles.
C1_DistinctMinusDisconnects ==
  Len(connections) = Cardinality(connected_ever) - disconnects_after

\* C1 (amended): the length of the active-connection list equals the number of
\* successful connect events, each event counted, minus the number of
\* disconnect events that found their handle in the list.
C1_ConnectsMinusFoundDisconnects == Len(connections) = net_connects

\* C1 witness: a handle is connected, disconnected and connected again.
C1_Witness ==
  /\ last.op = "connect"
  /\ last.status = 0
  /\ connected_ever = {last.conn}
  /\ disconnects_after = 1
  /\ connections = <<last.conn>>

\* C2: a disconnect event invokes the registered user disconnect callback
\* exactly once, with the event's connection, whether or not the handle was in
\* the active-connection list; with no callback registered none is invoked.
C2_DisconnectCallbackOnce ==
  last.op = "disconnect" =>
    /\ Cardinality(CallsNamed("on_disconnect")) = IF on_disconnect THEN 1 ELSE 0
    /\ \A i \in CallsNamed("on_disconnect") : calls[i][2] = last.conn

\* C2 witness: a disconnect event for a handle that was not in the list, with a
\* callback registered.
C2_Witness ==
  /\ last.op = "disconnect"
  /\ ~last.found
  /\ on_disconnect
  /\ calls[1] = <<"on_disconnect", last.conn, 0>>

\* C3 (as stated): after a notify-result event of indication kind for a
\* connection and an indexed characteristic, with success or failure status,
\* no slot holds the connection and try_begin_indicate returns true for it.
C3_ClearedOnEitherOutcome ==
  (/\ last.op = "notify_tx"
   /\ last.ind > 0
   /\ last.found
   /\ last.conn # BLE_HS_CONN_HANDLE_NONE)
    => set_indicate_wait(indicate_wait, last.conn)

\* C4: for every connection handle conn (a value other than the free
\* sentinel): after a reservation of conn, try_begin_indicate(conn) returns
\* false; after clear(conn), or after a notify-result event of indication kind
\* with failure status for conn on an indexed characteristic, it returns true.
C4_ReserveThenClear ==
  /\ (last.op = "record" /\ last.found)
       => ~set_indicate_wait(indicate_wait, last.conn)
  /\ (last.op = "clear_indicate_wait" /\ last.conn # BLE_HS_CONN_HANDLE_NONE)
       => set_indicate_wait(indicate_wait, last.conn)
  /\ (/\ last.op = "notify_tx"
      /\ last.ind > 0
      /\ last.status # 0
      /\ last.found
      /\ last.conn # BLE_HS_CONN_HANDLE_NONE)
       => set_indicate_wait(indicate_wait, last.conn)

\* C4 witness: a failed indication result for an indexed characteristic
\* arrives while another connection still has its reservation.
C4_Witness ==
  /\ last.op = "notify_tx"
  /\ last.ind > 0
  /\ last.status # 0
  /\ last.found
  /\ last.conn \in ConnHandles
  /\ \E h \in ConnHandles : h # last.conn /\ SlotsOf(h) # {}
  /\ \E i \in DOMAIN indicate_wait : indicate_wait[i] = BLE_HS_CONN_HANDLE_NONE

\* C5 (as stated): in every reachable state, whatever the interleaving of the
\* callers' reservations (the check, then the recording of the handle in a free
\* slot), the clear calls and the router events, the Indicate-Wait table holds
\* each connection handle in at most one slot.
C5_OneSlotPerConnection ==
  \A h \in ConnHandles : Cardinality(SlotsOf(h)) <= 1

\* C6 (as stated): after a disconnect event for handle h no Indicate-Wait slot
\* holds h, so try_begin_indicate(h) returns true for a connection reusing h.
C6_DisconnectClearsIndicateWait ==
  (last.op = "disconnect" /\ last.conn \in ConnHandles)
    => set_indicate_wait(indicate_wait, last.conn)

\* number of references to characteristic ref in the Subscribable index
IndexCount(ref) ==
  Cardinality({i \in 1..Len(notify_characteristic) : notify_characteristic[i] = ref})
\* the last operation made a stack call that failed
CallFailed == \E i \in 1..Len(calls) : calls[i][3] # 0
\* the stack calls of a start() in which every call succeeds, for n services
FullActivation(n) ==
  [i \in 1..n |-> <<"svc_start", i, 0>>]
    \o <<<<"ble_gatts_start", 0, 0>>>>
    \o [i \in 1..n |-> <<"ble_gatts_find_svc", i, 0>>]

\* C7 (as stated): whenever start() returns success, every registered
\* characteristic with Notify or Indicate appears exactly once in the
\* Subscribable index and no other characteristic appears in it.
C7_IndexExactlyOnce ==
  (last.op = "start" /\ last.ret = 0) =>
    \A s \in 1..Len(services) : \A c \in 1..Len(services[s].characteristics) :
      IndexCount(<<s, c>>) =
        IF Intersects(services[s].characteristics[c].properties, {"NOTIFY", "INDICATE"})
        THEN 1 ELSE 0

\* C8: a thread that calls start() while started is true does not enter the
\* activation sequence: the call returns success at once, with no stack call,
\* and leaves the server state unchanged.
C8_StartIdempotent ==
  [][started =>
       \A t \in Threads :
         start_pc[t] = "idle" =>
           /\ start_pc'[t] = "idle"
           /\ start_log'[t] = <<>>
           /\ (last'.op = "start" /\ UNCHANGED thread_vars) =>
                /\ last'.ret = 0
                /\ calls' = <<>>
                /\ server' = server
                /\ start_calls' = start_calls]_vars

\* C8 witness: start() is called on a started server that has an index.
C8_Witness ==
  /\ started
  /\ last.op = "start"
  /\ calls = <<>>
  /\ notify_characteristic # <<>>

\* C9 (as stated): when a service's attribute-table commit fails, start()
\* returns that failure, commits no later service, calls neither begin-serving
\* nor a handle lookup, leaves started false and the index empty.
C9_CommitFailure ==
  (last.op = "start" /\ \E i \in CallsNamed("svc_start") : calls[i][3] # 0) =>
    /\ last.ret = calls[Len(calls)][3]
    /\ \A i \in 1..Len(calls) :
         /\ calls[i][1] = "svc_start"
         /\ calls[i][2] = i
         /\ calls[i][3] # 0 <=> i = Len(calls)
    /\ ~started
    /\ notify_characteristic = <<>>

\* the stack calls of a log all returned success
AllSucceeded(log) == \A i \in 1..Len(log) : log[i][3] = 0

\* C10: started becomes true only at the end of a start() call whose every
\* commit, whose begin-serving call and whose every handle lookup succeeded;
\* a start() call with a failed stack call returns that failure and does not
\* set started; started never goes back to false.
C10_StartedLatch ==
  [][/\ (~started /\ started') =>
          /\ last'.op = "start"
          /\ last'.ret = 0
          /\ AllSucceeded(calls')
          /\ \E b \in 1..Len(calls') :
               /\ calls'[b][1] = "ble_gatts_start"
               /\ \A i \in 1..(b - 1) : calls'[i][1] = "svc_start"
               /\ \A i \in (b + 1)..Len(calls') : calls'[i][1] = "ble_gatts_find_svc"
          /\ \E t \in Threads : start_pc[t] = "finish" /\ start_log[t] = calls'
     /\ \A t \in Threads :
          (start_pc[t] # "idle" /\ start_pc'[t] = "idle" /\ CallFailed') =>
            /\ last'.op = "start"
            /\ last'.ret = calls'[Len(calls')][3]
            /\ last'.ret # 0
            /\ started' = started
     /\ started => started']_vars

\* C10 witness: start() succeeds for two services after an attempt that failed.
C10_Witness ==
  /\ started
  /\ last.op = "start"
  /\ calls = FullActivation(2)
  /\ start_calls = 2

\* C11: within one start() call, finished or still running, the services
\* registered when it was called are committed in registration order before
\* the begin-serving call; the begin-serving call comes before every handle
\* lookup; the lookups are in registration order; and a handle lookup is made
\* only after a begin-serving call that succeeded.
C11_StackCallOrder ==
  \A log \in {start_log[t] : t \in Threads} \cup
             (IF last.op = "start" THEN {calls} ELSE {}) :
    LET commits == {i \in 1..Len(log) : log[i][1] = "svc_start"}
        begins == {i \in 1..Len(log) : log[i][1] = "ble_gatts_start"}
        finds == {i \in 1..Len(log) : log[i][1] = "ble_gatts_find_svc"}
    IN
    /\ \A i \in commits : \A j \in begins \cup finds : i < j
    /\ \A j \in begins : \A k \in finds : j < k
    /\ \A i \in commits : log[i][2] = i
    /\ \A t \in Threads :
         (log = start_log[t] /\ start_pc[t] = "begin") => commits = 1..start_n[t]
    /\ \A i \in finds : \A j \in finds : i < j => log[i][2] < log[j][2]
    /\ finds # {} => \E j \in begins : log[j][3] = 0

\* a start() over two services that reached the handle lookups and failed at
\* the second one
C11_Witness ==
  /\ last.op = "start"
  /\ Len(services) = 2
  /\ Len(calls) = 5
  /\ calls[3] = <<"ble_gatts_start", 0, 0>>
  /\ calls[5][1] = "ble_gatts_find_svc"
  /\ calls[5][3] # 0
  /\ ~started

\* C12 (as stated, for the commits): no start() call requests the
\* attribute-table commit of a service that is already committed.
C12_CommitRequestedOnce ==
  [][\A t \in Threads :
       LET log == IF start_pc'[t] = "idle" THEN calls' ELSE start_log'[t]
       IN (/\ start_pc[t] = "commit"
           /\ Len(log) = Len(start_log[t]) + 1
           /\ log[Len(log)][1] = "svc_start")
            => ~services[log[Len(log)][2]].committed]_vars

\* C13: a connect event with non-zero status changes no field of the server
\* and invokes no callback; a connect event with status 0 appends exactly its
\* connection handle to the active-connection list.
C13_ConnectByStatus ==
  [][last'.op = "connect" =>
       IF last'.status # 0
       THEN /\ server' = server
            /\ CallsNamed("on_connect")' = {}
            /\ CallsNamed("on_disconnect")' = {}
       ELSE connections' = Append(connections, last'.conn)]_vars

\* a failed connect delivered while a link is up and a connect callback is
\* registered
C13_Witness ==
  /\ last.op = "connect"
  /\ last.status # 0
  /\ on_connect
  /\ Len(connections) = 1
  /\ calls = <<>>

\* C14 (as stated): once start() has succeeded no service is added, so every
\* registered service of a started server has its attribute table committed
\* and its handle resolved.
C14_RegistryFrozen ==
  started => \A s \in 1..Len(services) :
               services[s].committed /\ services[s].handle # 0

\* C20 (as stated): while started is false the Subscribable-Characteristic
\* Index is empty.
C20_IndexEmptyUntilStarted == ~started => notify_characteristic = <<>>

\* C16: set_indicate_wait(conn) returns true exactly when no slot of the
\* Indicate-Wait table holds conn, and never modifies the table;
\* clear_indicate_wait(conn) resets one slot holding conn to the free
\* sentinel and leaves every other slot unchanged, and changes nothing when
\* no slot holds conn.
C16_TrackerContract ==
  [][/\ last'.op = "set_indicate_wait" =>
          /\ (last'.ret = 1) <=> (SlotsOf(last'.conn) = {})
          /\ indicate_wait' = indicate_wait
     /\ last'.op = "clear_indicate_wait" =>
          IF SlotsOf(last'.conn) = {}
          THEN indicate_wait' = indicate_wait
          ELSE \E i \in SlotsOf(last'.conn) :
                 indicate_wait' =
                   [indicate_wait EXCEPT ![i] = BLE_HS_CONN_HANDLE_NONE]]_vars

\* a clear that released the slot of its handle while another handle stays
\* pending
C16_Witness ==
  /\ last.op = "clear_indicate_wait"
  /\ last.found
  /\ last.conn \in ConnHandles
  /\ SlotsOf(last.conn) = {}
  /\ \E h \in ConnHandles : h # last.conn /\ SlotsOf(h) # {}

\* the index holds a characteristic with this attribute handle
Indexed(attr_handle) ==
  \E i \in 1..Len(notify_characteristic) :
    ChrOf(services, notify_characteristic[i]).handle = attr_handle

\* C17: a notify-result event for an indexed characteristic, of indication
\* kind and with a non-success status, leaves no Indicate-Wait slot holding
\* its connection handle; a notify-result event of notification kind leaves
\* the table unchanged; no notify-result event changes a slot that holds
\* another connection handle.
C17_NotifyResultClears ==
  [][last'.op = "notify_tx" =>
       /\ (/\ Indexed(last'.attr)
           /\ last'.ind > 0
           /\ last'.status # 0
           /\ last'.conn # BLE_HS_CONN_HANDLE_NONE)
            => \A i \in DOMAIN indicate_wait : indicate_wait'[i] # last'.conn
       /\ last'.ind = 0 => indicate_wait' = indicate_wait
       /\ \A i \in DOMAIN indicate_wait :
            indicate_wait[i] # last'.conn => indicate_wait'[i] = indicate_wait[i]]_vars

\* a failed notification (not indication) result for an indexed
\* characteristic arrives while its connection has an indication pending
C17_Witness ==
  /\ last.op = "notify_tx"
  /\ last.ind = 0
  /\ last.status # 0
  /\ Indexed(last.attr)
  /\ last.conn \in ConnHandles
  /\ SlotsOf(last.conn) # {}

\* how many times a handle occurs in a list
Occurrences(list, x) == Cardinality({i \in 1..Len(list) : list[i] = x})

\* C18: a disconnect event requests the advertising restart exactly when
\* advertise_on_disconnect is set, as its last call, after the disconnect
\* callback; whether the restart succeeds or fails, one occurrence of the
\* handle has left the list, a registered callback has been invoked, no other
\* field of the server has changed and the router returns 0.
C18_AdvertisingRestart ==
  [][/\ last'.op = "disconnect" =>
       /\ Cardinality(CallsNamed("advertising_start")') =
            IF advertise_on_disconnect THEN 1 ELSE 0
       /\ \A a \in CallsNamed("advertising_start")' :
            /\ a = Len(calls')
            /\ \A c \in CallsNamed("on_disconnect")' : c < a
       /\ on_disconnect => CallsNamed("on_disconnect")' # {}
       /\ \A h \in ConnInputs :
            Occurrences(connections', h) =
              IF h = last'.conn /\ Occurrences(connections, h) > 0
              THEN Occurrences(connections, h) - 1
              ELSE Occurrences(connections, h)
       /\ UNCHANGED <<started, services, notify_characteristic, indicate_wait,
                      on_connect, on_disconnect, advertise_on_disconnect>>
       /\ last'.ret = 0
     /\ last'.op \in {"connect", "disconnect", "subscribe", "notify_tx", "other"}
          => last'.ret = 0]_vars

\* the advertising restart failed after a link was removed and the callback
\* was invoked
C18_Witness ==
  /\ last.op = "disconnect"
  /\ last.found
  /\ Len(calls) = 2
  /\ calls[1] = <<"on_disconnect", last.conn, 0>>
  /\ calls[2][1] = "advertising_start"
  /\ calls[2][3] # 0
  /\ last.ret = 0

\* C15: a subscribe or notify-result event whose attribute handle matches no
\* indexed characteristic, whether or not start() has succeeded, and an event
\* of any other kind, changes no field of the server and makes no call.
C15_UnmatchedIgnored ==
  [][(\/ last'.op = "other"
      \/ last'.op \in {"subscribe", "notify_tx"} /\ ~Indexed(last'.attr))
       => server' = server /\ calls' = <<>>]_vars

\* a failed indication result with an unknown attribute handle reaches a
\* started server whose index is not empty while its connection has an
\* indication pending
C15_Witness ==
  /\ last.op = "notify_tx"
  /\ ~Indexed(last.attr)
  /\ last.ind > 0
  /\ last.status # 0
  /\ started
  /\ notify_characteristic # <<>>
  /\ SlotsOf(last.conn) # {}
  /\ last.conn \in ConnHandles

\* the subscriptions a characteristic holds for the other connections
OtherSubscribers(chr, conn_handle) == {e \in chr.subscribed : e[1] # conn_handle}

\* what a characteristic records for connection conn_handle
SubscriptionOf(chr, conn_handle) == {e[2] : e \in chr.subscribed \ OtherSubscribers(chr, conn_handle)}

\* C19: a subscribe event with the handle of an indexed characteristic is
\* forwarded once, to the first index entry with that handle. That
\* characteristic then records for the event's connection the mode the event
\* carries, and nothing when the event carries no mode; what it records for
\* the other connections, its handle and its properties are unchanged, and so
\* is every other characteristic. The index, the connection list and the
\* Indicate-Wait table are unchanged. A successful connect on an empty list
\* leaves the list [h], and the disconnect of h from the list [h] leaves it
\* empty.
C19_SubscribeForwarded ==
  [][/\ (last'.op = "subscribe" /\ Indexed(last'.attr)) =>
          \E i \in 1..Len(notify_characteristic) :
            LET ref == notify_characteristic[i]
                mode == <<last'.status, last'.ind>>
            IN
            /\ ChrOf(services, ref).handle = last'.attr
            /\ \A j \in 1..(i - 1) :
                 ChrOf(services, notify_characteristic[j]).handle # last'.attr
            /\ calls' = <<<<"subscribe", i, 0>>>>
            /\ \A s \in 1..Len(services) :
                 \A c \in 1..Len(services[s].characteristics) :
                   <<s, c>> # ref =>
                     services'[s].characteristics[c] = services[s].characteristics[c]
            /\ OtherSubscribers(ChrOf(services', ref), last'.conn) =
                 OtherSubscribers(ChrOf(services, ref), last'.conn)
            /\ SubscriptionOf(ChrOf(services', ref), last'.conn) =
                 IF mode = <<0, 0>> THEN {} ELSE {mode}
            /\ ChrOf(services', ref).handle = ChrOf(services, ref).handle
            /\ ChrOf(services', ref).properties = ChrOf(services, ref).properties
            /\ Len(services') = Len(services)
            /\ notify_characteristic' = notify_characteristic
            /\ connections' = connections
            /\ indicate_wait' = indicate_wait
     /\ (last'.op = "connect" /\ last'.status = 0 /\ connections = <<>>)
          => connections' = <<last'.conn>>
     /\ (last'.op = "disconnect" /\ connections = <<last'.conn>>)
          => connections' = <<>>]_vars

\* two different characteristics are indexed with the same attribute handle;
\* the first holds the subscription of an earlier link, and a subscribe event
\* with that handle has been recorded by the first of them only
C19_Witness ==
  /\ last.op = "subscribe"
  /\ started
  /\ Len(notify_characteristic) = 2
  /\ notify_characteristic[1] # notify_characteristic[2]
  /\ ChrOf(services, notify_characteristic[1]).handle = last.attr
  /\ ChrOf(services, notify_characteristic[2]).handle = last.attr
  /\ SubscriptionOf(ChrOf(services, notify_characteristic[1]), last.conn) # {}
  /\ OtherSubscribers(ChrOf(services, notify_characteristic[1]), last.conn) # {}
  /\ ChrOf(services, notify_characteristic[2]).subscribed = {}
  /\ connections = <<last.conn>>

====
